---- MODULE Spec2Model ----
(***************************************************************************)
(* Regex-crossword solver: src/solver/backtracking.py (solve),             *)
(* src/solver/regex_engine.py (check_regex) and src/main.py (the script).  *)
(*                                                                         *)
(* Python strings are sequences of one-character strings; the empty cell   *)
(* "" is the empty sequence <<>>, so "".join(...) is plain concatenation.  *)
(* Python lists are sequences; the 0-based index i of the source is i+1.   *)
(* The recursion of solve is an explicit stack of frames, the last frame   *)
(* being the running call.                                                 *)
(***************************************************************************)
EXTENDS Integers, Sequences, FiniteSets, TLC

VARIABLES puzzle, grid, stack, ret, mainpc, out, lastcheck, run, prev

vars == <<puzzle, grid, stack, ret, mainpc, out, lastcheck, run, prev>>

\* ---------------------------------------------------------------- bounds
MaxN == 2       \* largest grid size drawn for the product of puzzles
MaxRuns == 2    \* how many times the script is run on one puzzle
MaxExt == 2     \* longest completion tried when asking "is it extendable"

\* --------------------------------------------------------------- strings
sA == <<"A">>
sB == <<"B">>
Empty == <<>>

RECURSIVE Join(_)
\* "".join(list)
Join(list) == IF list = <<>> THEN <<>> ELSE Head(list) \o Join(Tail(list))

\* sub in text (Python substring test)
InStr(sub, text) ==
    \E i \in 1..(Len(text) - Len(sub) + 1) :
        SubSeq(text, i, i + Len(sub) - 1) = sub

\* ----------------------------------------------------------------- regex
\* A compiled pattern is a sequence of alternatives; an alternative is a
\* sequence of atoms [ch, q]: ch a letter or "." (any), q one of "1","+","*".
Atom(c, quant) == [ch |-> c, q |-> quant]

\* re's compilation of the pattern strings used by the puzzles
Compile(pattern) ==
    CASE pattern = "A"    -> << <<Atom("A", "1")>> >>
      [] pattern = "AA"   -> << <<Atom("A", "1"), Atom("A", "1")>> >>
      [] pattern = "AB"   -> << <<Atom("A", "1"), Atom("B", "1")>> >>
      [] pattern = "BA"   -> << <<Atom("B", "1"), Atom("A", "1")>> >>
      [] pattern = "A+B"  -> << <<Atom("A", "+"), Atom("B", "1")>> >>
      [] pattern = "AB|B" -> << <<Atom("A", "1"), Atom("B", "1")>>,
                                <<Atom("B", "1")>> >>
      [] pattern = ".*"   -> << <<Atom(".", "*")>> >>

\* re raises re.error when it compiles an ill-formed pattern such as "(A"
\* (unterminated group)
WellFormed(pattern) == pattern # "(A"

AtomOk(a, text, pos) ==
    /\ pos <= Len(text)
    /\ (a.ch = "." \/ a.ch = text[pos])

\* positions j >= i such that text[i..j-1] consists of characters of atom a
Reach(a, text, i) ==
    {j \in i..(Len(text) + 1) : \A m \in i..(j - 1) : AtomOk(a, text, m)}

RECURSIVE Ends(_, _, _, _)
\* the positions where a match of atoms[k..] that starts at position i of
\* text can end (one past the last matched character)
Ends(atoms, k, text, i) ==
    IF k > Len(atoms) THEN {i}
    ELSE LET a == atoms[k] IN
         CASE a.q = "1" -> IF AtomOk(a, text, i)
                           THEN Ends(atoms, k + 1, text, i + 1) ELSE {}
           [] a.q = "*" -> UNION {Ends(atoms, k + 1, text, j) :
                                     j \in Reach(a, text, i)}
           [] a.q = "+" -> UNION {Ends(atoms, k + 1, text, j) :
                                     j \in Reach(a, text, i) \ {i}}

\* re.match(pattern, text) is not None: some prefix of text matches
re_match(pattern, text) ==
    \E b \in 1..Len(Compile(pattern)) :
        Ends(Compile(pattern)[b], 1, text, 1) # {}

\* re.fullmatch(pattern, text) is not None: the whole text matches
re_fullmatch(pattern, text) ==
    \E b \in 1..Len(Compile(pattern)) :
        (Len(text) + 1) \in Ends(Compile(pattern)[b], 1, text, 1)

check_regex(pattern, text) ==
    IF InStr(Empty, text)
    THEN re_match(pattern, text)
    ELSE re_fullmatch(pattern, text)

\* ---------------------------------------------------------------- puzzles
CorePatterns == {"A", "A+B", "AB|B", ".*"}
CoreAlphabets == {<<sA>>, <<sA, sB>>, <<sB, sA>>}

MkPuzzle(n, a, r, c) ==
    [size |-> n, alphabet |-> a, row_regex |-> r, col_regex |-> c]

\* the puzzles of the specification's examples
ExamplePuzzles ==
    { MkPuzzle(1, <<sA, sB>>, <<"A">>, <<"A">>),
      MkPuzzle(2, <<sA, sB>>, <<"AB", "BA">>, <<"AB", "BA">>),
      MkPuzzle(2, <<sA>>, <<"AA", "AA">>, <<"AB", "AB">>) }

\* the puzzles whose patterns are all well-formed
Puzzles ==
    ExamplePuzzles \cup
    UNION { { MkPuzzle(n, a, r, c) :
                a \in CoreAlphabets,
                r \in [1..n -> CorePatterns],
                c \in [1..n -> CorePatterns] } : n \in 1..MaxN }

AllWellFormed(p) ==
    /\ \A i \in 1..Len(p.row_regex) : WellFormed(p.row_regex[i])
    /\ \A i \in 1..Len(p.col_regex) : WellFormed(p.col_regex[i])

\* what data/puzzle.json can hold at size n: the puzzles above and those in
\* which some row or column pattern is ill-formed
PuzzleFiles(n) ==
    { MkPuzzle(n, a, r, c) :
        a \in CoreAlphabets,
        r \in [1..n -> CorePatterns \cup {"(A"}],
        c \in [1..n -> CorePatterns \cup {"(A"}] }

\* (variant: the loader hands the patterns on without compiling them)
load_puzzle_unchecked(p) == TRUE

\* load_puzzle returns the puzzle only if every pattern is a well-formed
\* regular expression, and raises InvalidPatternError otherwise
load_puzzle_ok(p) == AllWellFormed(p)

\* ------------------------------------------------------------------- grid
empty_grid(size) == [r \in 1..size |-> [c \in 1..size |-> Empty]]

SetCell(g, row, col, v) == [g EXCEPT ![row + 1][col + 1] = v]

RowCells(g, row) == g[row + 1]
ColCells(g, col, size) == [r \in 1..size |-> g[r][col + 1]]

NoCheck == [kind |-> "none", row |-> 0, col |-> 0, pattern |-> "",
            cells |-> <<>>, text |-> <<>>, result |-> FALSE]
NoPrev == [ret |-> "none", grid |-> <<>>]

\* ------------------------------------------------------------------ frames
Top == stack[Len(stack)]
SetTop(f) == [stack EXCEPT ![Len(stack)] = f]
Pop == SubSeq(stack, 1, Len(stack) - 1)

\* a frame of solve; entry is the grid as it was when the call was entered
NewFrame(row, col) ==
    [row |-> row, col |-> col, next_row |-> 0, next_col |-> 0,
     li |-> 0, pc |-> "entry", row_string |-> <<>>, col_string |-> <<>>,
     entry |-> grid]

\* before main.py line 5: the puzzle file exists, no grid has been built
Init ==
    /\ \/ puzzle \in ExamplePuzzles
       \/ \E n \in 1..MaxN : puzzle \in PuzzleFiles(n)
    /\ grid = <<>>
    /\ stack = <<>>
    /\ ret = "none"
    /\ mainpc = "load"
    /\ out = <<>>
    /\ lastcheck = NoCheck
    /\ run = 1
    /\ prev = NoPrev

\* main.py lines 5-7: load the puzzle, build the empty grid; an exception
\* of load_puzzle ends the script
MainLoad ==
    /\ mainpc = "load"
    /\ IF load_puzzle_ok(puzzle)
       THEN /\ grid' = empty_grid(puzzle.size)
            /\ mainpc' = "call"
            /\ out' = out
       ELSE /\ grid' = grid
            /\ mainpc' = "error"
            /\ out' = <<"InvalidPatternError">>
    /\ UNCHANGED <<puzzle, stack, ret, lastcheck, run, prev>>

\* main.py line 9: solve(grid, puzzle) with row=0, col=0
MainCall ==
    /\ mainpc = "call"
    /\ mainpc' = "solving"
    /\ stack' = <<NewFrame(0, 0)>>
    /\ UNCHANGED <<puzzle, grid, ret, out, lastcheck, run, prev>>

\* lines 5-8: the base case returns True
EnterDone ==
    /\ stack # <<>>
    /\ Top.pc = "entry"
    /\ Top.row = puzzle.size
    /\ ret' = "True"
    /\ stack' = Pop
    /\ UNCHANGED <<puzzle, grid, mainpc, out, lastcheck, run, prev>>

\* (variant: the column is advanced without wrapping at the row's end)
EnterBranchNoWrap ==
    /\ stack # <<>>
    /\ Top.pc = "entry"
    /\ Top.row # puzzle.size
    /\ stack' = SetTop([Top EXCEPT
           !.next_row = Top.row + ((Top.col + 1) \div puzzle.size),
           !.next_col = Top.col + 1,
           !.li = 1,
           !.pc = "loop"])
    /\ UNCHANGED <<puzzle, grid, ret, mainpc, out, lastcheck, run, prev>>

\* lines 5-11: below the last row, compute the next position
EnterBranch ==
    /\ stack # <<>>
    /\ Top.pc = "entry"
    /\ Top.row # puzzle.size
    /\ stack' = SetTop([Top EXCEPT
           !.next_row = Top.row + ((Top.col + 1) \div puzzle.size),
           !.next_col = (Top.col + 1) % puzzle.size,
           !.li = 1,
           !.pc = "loop"])
    /\ UNCHANGED <<puzzle, grid, ret, mainpc, out, lastcheck, run, prev>>

\* lines 13-18: the next letter is written to the cell, the strings built
Assign ==
    /\ stack # <<>>
    /\ Top.pc = "loop"
    /\ Top.li <= Len(puzzle.alphabet)
    /\ LET g == SetCell(grid, Top.row, Top.col, puzzle.alphabet[Top.li]) IN
       /\ grid' = g
       /\ stack' = SetTop([Top EXCEPT
              !.row_string = Join(RowCells(g, Top.row)),
              !.col_string = Join(ColCells(g, Top.col, puzzle.size)),
              !.pc = "rowchk"])
    /\ UNCHANGED <<puzzle, ret, mainpc, out, lastcheck, run, prev>>

\* re.error raised inside check_regex: no frame of solve and no line of the
\* script catches it, so every call is abandoned and the script ends with
\* the traceback; the cell written on line 15 keeps its letter
Raise(kind, pat, cells, text) ==
    /\ lastcheck' = [kind |-> "raise", row |-> Top.row, col |-> Top.col,
                     pattern |-> pat, cells |-> cells, text |-> text,
                     result |-> FALSE]
    /\ stack' = <<>>
    /\ mainpc' = "error"
    /\ out' = <<"re.error">>

\* (variant: the result of the row check is not used to skip the letter)
RowCheckNoPrune ==
    /\ stack # <<>>
    /\ Top.pc = "rowchk"
    /\ LET pat == puzzle.row_regex[Top.row + 1]
           res == check_regex(pat, Top.row_string) IN
       IF WellFormed(pat)
       THEN /\ lastcheck' = [kind |-> "row", row |-> Top.row,
                             col |-> Top.col, pattern |-> pat,
                             cells |-> RowCells(grid, Top.row),
                             text |-> Top.row_string, result |-> res]
            /\ stack' = SetTop([Top EXCEPT !.pc = "colchk"])
            /\ UNCHANGED <<mainpc, out>>
       ELSE Raise("row", pat, RowCells(grid, Top.row), Top.row_string)
    /\ UNCHANGED <<puzzle, grid, ret, run, prev>>

\* line 20: the row check; on failure the loop goes to the next letter
RowCheck ==
    /\ stack # <<>>
    /\ Top.pc = "rowchk"
    /\ LET pat == puzzle.row_regex[Top.row + 1]
           res == check_regex(pat, Top.row_string) IN
       IF WellFormed(pat)
       THEN /\ lastcheck' = [kind |-> "row", row |-> Top.row,
                             col |-> Top.col, pattern |-> pat,
                             cells |-> RowCells(grid, Top.row),
                             text |-> Top.row_string, result |-> res]
            /\ stack' = SetTop(IF res THEN [Top EXCEPT !.pc = "colchk"]
                               ELSE [Top EXCEPT !.pc = "loop", !.li = @ + 1])
            /\ UNCHANGED <<mainpc, out>>
       ELSE Raise("row", pat, RowCells(grid, Top.row), Top.row_string)
    /\ UNCHANGED <<puzzle, grid, ret, run, prev>>

\* line 22: the column check
ColCheck ==
    /\ stack # <<>>
    /\ Top.pc = "colchk"
    /\ LET pat == puzzle.col_regex[Top.col + 1]
           res == check_regex(pat, Top.col_string) IN
       IF WellFormed(pat)
       THEN /\ lastcheck' = [kind |-> "col", row |-> Top.row,
                             col |-> Top.col, pattern |-> pat,
                             cells |-> ColCells(grid, Top.col, puzzle.size),
                             text |-> Top.col_string, result |-> res]
            /\ stack' = SetTop(IF res THEN [Top EXCEPT !.pc = "call"]
                               ELSE [Top EXCEPT !.pc = "loop", !.li = @ + 1])
            /\ UNCHANGED <<mainpc, out>>
       ELSE Raise("col", pat, ColCells(grid, Top.col, puzzle.size),
                  Top.col_string)
    /\ UNCHANGED <<puzzle, grid, ret, run, prev>>

\* line 24: the recursive call solve(grid, puzzle, next_row, next_col)
Recurse ==
    /\ stack # <<>>
    /\ Top.pc = "call"
    /\ stack' = Append(SetTop([Top EXCEPT !.pc = "wait"]),
                       NewFrame(Top.next_row, Top.next_col))
    /\ ret' = "none"
    /\ UNCHANGED <<puzzle, grid, mainpc, out, lastcheck, run, prev>>

\* (variant: the cell is reset on the way out of a successful call too)
ChildTrueRevert ==
    /\ stack # <<>>
    /\ Top.pc = "wait"
    /\ ret = "True"
    /\ grid' = SetCell(grid, Top.row, Top.col, Empty)
    /\ stack' = Pop
    /\ UNCHANGED <<puzzle, ret, mainpc, out, lastcheck, run, prev>>

\* lines 24-25: the callee returned True, so does this call
ChildTrue ==
    /\ stack # <<>>
    /\ Top.pc = "wait"
    /\ ret = "True"
    /\ stack' = Pop
    /\ UNCHANGED <<puzzle, grid, ret, mainpc, out, lastcheck, run, prev>>

\* (variant: after a failed recursion the same letter is tried again)
ChildFalseNoAdvance ==
    /\ stack # <<>>
    /\ Top.pc = "wait"
    /\ ret = "False"
    /\ stack' = SetTop([Top EXCEPT !.pc = "loop"])
    /\ ret' = "none"
    /\ UNCHANGED <<puzzle, grid, mainpc, out, lastcheck, run, prev>>

\* line 24: the callee returned False, the loop goes to the next letter
ChildFalse ==
    /\ stack # <<>>
    /\ Top.pc = "wait"
    /\ ret = "False"
    /\ stack' = SetTop([Top EXCEPT !.pc = "loop", !.li = @ + 1])
    /\ ret' = "none"
    /\ UNCHANGED <<puzzle, grid, mainpc, out, lastcheck, run, prev>>

\* (variant: line 27 missing, the last letter tried stays in the cell)
ExhaustNoRevert ==
    /\ stack # <<>>
    /\ Top.pc = "loop"
    /\ Top.li > Len(puzzle.alphabet)
    /\ ret' = "False"
    /\ stack' = Pop
    /\ UNCHANGED <<puzzle, grid, mainpc, out, lastcheck, run, prev>>

\* lines 27-29: the alphabet is exhausted, the cell is reset, return False
Exhaust ==
    /\ stack # <<>>
    /\ Top.pc = "loop"
    /\ Top.li > Len(puzzle.alphabet)
    /\ grid' = SetCell(grid, Top.row, Top.col, Empty)
    /\ ret' = "False"
    /\ stack' = Pop
    /\ UNCHANGED <<puzzle, mainpc, out, lastcheck, run, prev>>

\* main.py line 9 completes; its value is not bound to a name
MainReturn ==
    /\ mainpc = "solving"
    /\ stack = <<>>
    /\ mainpc' = "print"
    /\ UNCHANGED <<puzzle, grid, stack, ret, out, lastcheck, run, prev>>

\* main.py lines 11-13
MainPrint ==
    /\ mainpc = "print"
    /\ out' = <<"Solution:">> \o grid
    /\ mainpc' = "done"
    /\ UNCHANGED <<puzzle, grid, stack, ret, lastcheck, run, prev>>

\* (variant: the second run reuses the grid the first run left behind)
RerunStale ==
    /\ mainpc = "done"
    /\ run < MaxRuns
    /\ run' = run + 1
    /\ prev' = [ret |-> ret, grid |-> grid]
    /\ grid' = grid
    /\ ret' = "none"
    /\ out' = <<>>
    /\ lastcheck' = NoCheck
    /\ mainpc' = "call"
    /\ UNCHANGED <<puzzle, stack>>

\* the script is run again on the same puzzle: main.py lines 7-9 build a
\* fresh grid before solve is called
Rerun ==
    /\ mainpc = "done"
    /\ run < MaxRuns
    /\ run' = run + 1
    /\ prev' = [ret |-> ret, grid |-> grid]
    /\ grid' = empty_grid(puzzle.size)
    /\ ret' = "none"
    /\ out' = <<>>
    /\ lastcheck' = NoCheck
    /\ mainpc' = "call"
    /\ UNCHANGED <<puzzle, stack>>

Next ==
    \/ MainLoad
    \/ MainCall
    \/ EnterDone
    \/ EnterBranch
    \/ Assign
    \/ RowCheck
    \/ ColCheck
    \/ Recurse
    \/ ChildTrue
    \/ ChildFalse
    \/ Exhaust
    \/ MainReturn
    \/ MainPrint

Spec == Init /\ [][Next]_vars

NextTwice == Next \/ Rerun

SpecTwice == Init /\ [][NextTwice]_vars

\* the script is one sequential thread: while a step is possible, the
\* interpreter takes it
SpecLive == Init /\ [][Next]_vars /\ WF_vars(Next)

TypeOK ==
    /\ puzzle.size \in 1..MaxN
    /\ mainpc \in {"call", "solving", "print", "done"} => puzzle \in Puzzles
    /\ mainpc \in {"load", "call", "solving", "print", "done", "error"}
    /\ ret \in {"none", "True", "False"}
    /\ run \in 1..MaxRuns
    /\ Len(stack) <= puzzle.size * puzzle.size + 1

\* ------------------------------------------------------------ properties
\* solve(grid, puzzle) of main.py line 9 has returned; ret is its value
SolveReturned == mainpc \in {"print", "done"}

Success == SolveReturned /\ ret = "True"
Failure == SolveReturned /\ ret = "False"

\* text matches the pattern in its entirety (anchored at both ends)
Matches(pattern, text) ==
    \E b \in 1..Len(Compile(pattern)) :
        (Len(text) + 1) \in Ends(Compile(pattern)[b], 1, text, 1)

Letters == {puzzle.alphabet[i] : i \in 1..Len(puzzle.alphabet)}

\* a complete assignment in which every row and column fully matches
IsSolution(g) ==
    /\ \A r \in 1..puzzle.size : \A c \in 1..puzzle.size : g[r][c] \in Letters
    /\ \A r \in 0..(puzzle.size - 1) :
          Matches(puzzle.row_regex[r + 1], Join(RowCells(g, r)))
    /\ \A c \in 0..(puzzle.size - 1) :
          Matches(puzzle.col_regex[c + 1], Join(ColCells(g, c, puzzle.size)))

Solutions ==
    {g \in [1..puzzle.size -> [1..puzzle.size -> Letters]] : IsSolution(g)}

\* position of a letter in the alphabet's order
Rank(letter) == CHOOSE i \in 1..Len(puzzle.alphabet) : puzzle.alphabet[i] = letter

\* cell k (0-based) of g in row-major order
CellAt(g, k) == g[(k \div puzzle.size) + 1][(k % puzzle.size) + 1]

\* s comes strictly before g, cells compared in row-major order
Precedes(s, g) ==
    \E k \in 0..(puzzle.size * puzzle.size - 1) :
        /\ \A j \in 0..(k - 1) : CellAt(s, j) = CellAt(g, j)
        /\ CellAt(g, k) \in Letters
        /\ Rank(CellAt(s, k)) < Rank(CellAt(g, k))

RECURSIVE StringsOfLen(_)
StringsOfLen(n) ==
    IF n = 0 THEN {<<>>}
    ELSE {w \o l : w \in StringsOfLen(n - 1), l \in Letters}

\* text is a prefix of some string that fully matches the pattern
Extendable(pattern, text) ==
    \E n \in 0..MaxExt : \E w \in StringsOfLen(n) : Matches(pattern, text \o w)

HasEmptyCell(cells) == \E i \in 1..Len(cells) : cells[i] = Empty

P8 == MkPuzzle(2, <<sA, sB>>, <<"AB", "BA">>, <<"AB", "BA">>)
P9 == MkPuzzle(2, <<sA>>, <<"AA", "AA">>, <<"AB", "AB">>)
P10 == MkPuzzle(1, <<sA, sB>>, <<"A">>, <<"A">>)

\* C1: whenever solve returns success, the grid is completely filled with
\* alphabet symbols and every row and every column fully matches its pattern.
C1_SuccessIsSolution == Success => IsSolution(grid)

\* C2: solve returns failure only when no valid assignment exists: on a
\* puzzle that has a complete, fully matching assignment it returns success.
C2_FailureOnlyIfNone == (SolveReturned /\ Solutions # {}) => ret = "True"

\* C3: when solve returns failure, every cell of the grid holds the empty
\* string.
C3_FailureLeavesEmpty == Failure => grid = empty_grid(puzzle.size)

\* C3 witness: a failed search that had gone down to the second row
C3_Witness ==
    /\ Failure
    /\ lastcheck.kind = "row"
    /\ lastcheck.row = 1
    /\ grid = empty_grid(puzzle.size)

\* C4: when solve returns success, no fully matching complete assignment
\* precedes the returned grid in row-major, alphabet-order comparison.
C4_FirstInOrder == Success => \A s \in Solutions : ~Precedes(s, grid)

\* C5: a check on a row or column that still has an empty cell returns true
\* whenever the assigned symbols are a prefix of a fully matching string.
C5_PrefixCompatible ==
    (/\ lastcheck.kind \in {"row", "col"}
     /\ HasEmptyCell(lastcheck.cells)
     /\ Extendable(lastcheck.pattern, lastcheck.text))
    => lastcheck.result

\* C6: a check on a row or column without an empty cell returns true if and
\* only if the whole text matches the pattern.
C6_FullMode ==
    (/\ lastcheck.kind \in {"row", "col"}
     /\ ~HasEmptyCell(lastcheck.cells))
    => (lastcheck.result <=> Matches(lastcheck.pattern, lastcheck.text))

C8_Example ==
    (puzzle = P8 /\ SolveReturned)
    => (ret = "True" /\ grid = <<<<sA, sB>>, <<sB, sA>>>>)

\* C9: solve returns failure on N=2, alphabet (A), rows ("AA", "AA"),
\* columns ("AB", "AB"), and never returns success on a puzzle without a
\* fully matching complete assignment.
C9_NoFalseSuccess ==
    (SolveReturned /\ (puzzle = P9 \/ Solutions = {})) => ret = "False"

\* C10: on N=1, alphabet (A, B), row ("A"), column ("A"), solve returns
\* success with grid [[A]].
C10_Example ==
    (puzzle = P10 /\ SolveReturned) => (ret = "True" /\ grid = <<<<sA>>>>)

\* C10 witness: solve has returned on that puzzle
C10_Witness == puzzle = P10 /\ SolveReturned /\ grid = <<<<sA>>>>

\* index of cell (row, col) in row-major order
Index(row, col) == row * puzzle.size + col

\* the row and column checks of the letter in the running call's cell
RowPasses(f) ==
    check_regex(puzzle.row_regex[f.row + 1], Join(RowCells(grid, f.row)))
ColPasses(f) ==
    check_regex(puzzle.col_regex[f.col + 1],
                Join(ColCells(grid, f.col, puzzle.size)))

\* C11: a call of solve below the last row that returns failure leaves the
\* grid as it was when the call was entered, its own cell being empty.
C11_FailedCallRestores ==
    [][(stack # <<>> /\ Len(stack') < Len(stack) /\ ret' = "False")
       => (/\ grid' = Top.entry
           /\ grid'[Top.row + 1][Top.col + 1] = Empty
           /\ Top.row < puzzle.size)]_vars

\* C11 witness: a nested call has returned failure to a caller whose own
\* cell still holds its letter, after checks in the callee or below it
C11_Witness ==
    /\ stack # <<>>
    /\ Top.pc = "wait"
    /\ ret = "False"
    /\ grid[Top.row + 1][Top.col + 1] # Empty
    /\ grid[Top.next_row + 1][Top.next_col + 1] = Empty
    /\ Index(lastcheck.row, lastcheck.col) > Index(Top.row, Top.col)

\* C12: when a row or column check is evaluated for the letter at (row,
\* col), every cell before it in row-major order holds an alphabet symbol,
\* every cell after it is empty, and the strings checked are the assigned
\* prefixes of that row and column.
C12_CheckSeesPrefix ==
    (stack # <<>> /\ Top.pc \in {"rowchk", "colchk"}) =>
        /\ \A k \in 0..(puzzle.size * puzzle.size - 1) :
              IF k <= Index(Top.row, Top.col)
              THEN CellAt(grid, k) \in Letters
              ELSE CellAt(grid, k) = Empty
        /\ Top.row_string =
              Join(SubSeq(RowCells(grid, Top.row), 1, Top.col + 1))
        /\ Top.col_string =
              Join(SubSeq(ColCells(grid, Top.col, puzzle.size), 1, Top.row + 1))

\* C12 witness: a check at (1,0) of a 2x2 grid after an earlier branch was
\* abandoned (the call at (0,0) is past its first letter)
C12_Witness ==
    /\ puzzle.size = 2
    /\ stack # <<>>
    /\ Top.pc = "colchk"
    /\ Top.row = 1
    /\ Top.col = 0
    /\ stack[1].li > 1

\* C13: solve recurses for a letter only if its row check and its column
\* check both passed; when the row check fails there is no column check and
\* no recursion for that letter, and the next letter is tried.
C13_RecurseOnlyIfBothPass ==
    [][/\ (stack # <<>> /\ Len(stack') > Len(stack))
            => (RowPasses(Top) /\ ColPasses(Top))
       /\ (stack # <<>> /\ Top.pc = "rowchk" /\ mainpc' # "error"
               /\ ~RowPasses(Top))
            => (/\ Len(stack') = Len(stack)
                /\ stack'[Len(stack')].pc = "loop"
                /\ stack'[Len(stack')].li = Top.li + 1
                /\ lastcheck'.kind = "row")]_vars

\* C13 witness: the row check of the first letter failed and the loop
\* stands at the second letter, the column check not having run
C13_Witness ==
    /\ stack # <<>>
    /\ Top.pc = "loop"
    /\ Top.li = 2
    /\ lastcheck.kind = "row"
    /\ ~lastcheck.result
    /\ lastcheck.row = Top.row
    /\ lastcheck.col = Top.col

\* C14: once row == N has been reached, no cell is written again and every
\* enclosing call returns success at once, without another letter.
C14_FirstSolutionKept ==
    [][(ret = "True" /\ mainpc = "solving")
       => (/\ grid' = grid
           /\ ret' = "True"
           /\ stack # <<>> => stack' = Pop)]_vars

\* C14 witness: success is on its way up through a call that has letters
\* left untried
C14_Witness ==
    /\ ret = "True"
    /\ stack # <<>>
    /\ Top.pc = "wait"
    /\ Top.li < Len(puzzle.alphabet)
    /\ Len(stack) > 1

\* the position after (row, col) in row-major order
NextPos(row, col) ==
    IF col + 1 < puzzle.size THEN <<row, col + 1>> ELSE <<row + 1, 0>>

\* C15: the calls of solve are at successive row-major positions from
\* (0,0); every position has 0 <= col < N and 0 <= row <= N; only a call
\* with row == N is complete, and every call that touches a cell has row < N.
C15_RowMajorPositions ==
    \A i \in 1..Len(stack) :
        /\ stack[i].col \in 0..(puzzle.size - 1)
        /\ stack[i].row \in 0..puzzle.size
        /\ i = 1 => (stack[i].row = 0 /\ stack[i].col = 0)
        /\ i > 1 => <<stack[i].row, stack[i].col>> =
                       NextPos(stack[i - 1].row, stack[i - 1].col)
        /\ stack[i].pc # "entry" =>
              /\ stack[i].row < puzzle.size
              /\ <<stack[i].next_row, stack[i].next_col>> =
                    NextPos(stack[i].row, stack[i].col)
        /\ stack[i].row = puzzle.size => i = puzzle.size * puzzle.size + 1

\* C15 witness: the call after the last cell of a 2x2 grid is at (2, 0),
\* its caller at (1, 1) having wrapped from the end of the row
C15_Witness ==
    /\ puzzle.size = 2
    /\ Len(stack) = 5
    /\ Top.row = 2
    /\ Top.col = 0
    /\ stack[3].row = 1
    /\ stack[3].col = 0

\* C16: every solve started at (0,0) on an empty grid returns, with success
\* or with failure.
C16_Terminates ==
    (mainpc = "solving") ~> (SolveReturned /\ ret \in {"True", "False"})

\* C16 witness: solve has returned after a search that backtracked out of
\* the second row
C16_Witness ==
    /\ mainpc = "print"
    /\ ret = "False"
    /\ lastcheck.row = 1
    /\ puzzle.size = 2

\* C17: the script presents the grid as a solution only when solve returned
\* success; on failure its output is a failure signal instead.
C17_OutputFollowsOutcome ==
    (mainpc = "done" /\ out # <<>> /\ out[1] = "Solution:") => ret = "True"

\* some row or column pattern of the puzzle is ill-formed
HasIllFormed == ~AllWellFormed(puzzle)

NothingAssigned ==
    \A r \in 1..Len(grid) : \A c \in 1..Len(grid[r]) : grid[r][c] = Empty

====
